---- MODULE Spec2Model ----
(***************************************************************************)
(* A state-machine model of bot.py: a Discord bot that relays slash        *)
(* commands to the Alpaca market-data and trading gateways and renders     *)
(* the answers as embeds and matplotlib charts.                            *)
(*                                                                         *)
(* Every command invocation is a coroutine on one cooperative event loop.  *)
(* A coroutine can be suspended only at an await: the deferral             *)
(* (interaction.response.defer) and the reply send (followup.send or       *)
(* response.send_message).  The gateway calls and the pyplot calls are     *)
(* synchronous, so everything between two awaits is one atomic action.     *)
(*                                                                         *)
(* Numbers: prices and money amounts are integers (the smallest unit the   *)
(* gateway reports); a quotient the code computes with "/" is an exact     *)
(* rational [n, d] in lowest terms.  Binary floating-point rounding and    *)
(* the text rendering of a number inside an f-string are not modelled: an  *)
(* embed field carries the value the code formats.                         *)
(***************************************************************************)
EXTENDS Integers, Sequences, FiniteSets, TLC

VARIABLES
    boot,                  \* position of the module-level code: "start" | "ready"
    alpaca_data_client,    \* "unset" | "None" | "client"
    alpaca_trading_client, \* "unset" | "None" | "client"
    inv,                   \* the interaction slots: one record per invocation in flight
    figs                   \* pyplot's global figure registry, the current figure last

vars == <<boot, alpaca_data_client, alpaca_trading_client, inv, figs>>

(***************************************************************************)
(* Bounds of the model.                                                    *)
(***************************************************************************)
NInv == 2          \* interaction slots that can be in flight together
MaxFigs == 2       \* open figures after which no further chart is started (interleaved runs)
MaxFigsSeq == 1    \* the same, in the runs of one slot with the large sets
MaxPositions == 11 \* longest position list the gateway returns
DayMargin == 3     \* day counts range from -DayMargin to MaxDays + DayMargin
MaxBars == 3       \* longest bar series the gateway returns
MaxAssets == 16    \* most matching assets the gateway returns
MaxCaseLen == 6    \* category keys up to this length are tried in every letter case

(***************************************************************************)
(* Program constants.                                                      *)
(***************************************************************************)
MaxDays == 365         \* chart / compare: days > 365 becomes 365
MinDays == 1           \* chart / compare: days < 1 becomes 1
DefaultDays == 30      \* chart / compare: days: int = 30
MaxCompareOffByOne == 5 + 1
MaxCompare == 5        \* compare: more than 5 symbols are rejected
MaxDisplayed == 10     \* positions: positions[:10]
MaxMatches == 15       \* search: matches[:15]

(***************************************************************************)
(* Strings are sequences of one-character strings, so that str.upper,      *)
(* str.lower, str.strip and str.split are computed, not assumed.           *)
(***************************************************************************)
LowerLetters ==
    <<"a","b","c","d","e","f","g","h","i","j","k","l","m",
      "n","o","p","q","r","s","t","u","v","w","x","y","z">>

UpperLetters ==
    <<"A","B","C","D","E","F","G","H","I","J","K","L","M",
      "N","O","P","Q","R","S","T","U","V","W","X","Y","Z">>

CharLower(c) ==
    IF \E k \in 1..26 : UpperLetters[k] = c
    THEN LowerLetters[CHOOSE k \in 1..26 : UpperLetters[k] = c]
    ELSE c

CharUpper(c) ==
    IF \E k \in 1..26 : LowerLetters[k] = c
    THEN UpperLetters[CHOOSE k \in 1..26 : LowerLetters[k] = c]
    ELSE c

\* the argument used as typed
LowerForgotten(s) == s

\* str.lower()
Lower(s) == [k \in 1..Len(s) |-> CharLower(s[k])]

\* str.upper()
Upper(s) == [k \in 1..Len(s) |-> CharUpper(s[k])]

\* str.strip(): leading and trailing blanks removed
RECURSIVE Strip(_)
Strip(s) ==
    IF s = <<>> THEN s
    ELSE IF s[1] = " " THEN Strip(Tail(s))
    ELSE IF s[Len(s)] = " " THEN Strip(SubSeq(s, 1, Len(s) - 1))
    ELSE s

\* str.split(','): the pieces between the commas; a string without a comma
\* (the empty string included) is one piece
RECURSIVE Split(_)
Split(s) ==
    IF \A k \in 1..Len(s) : s[k] # ","
    THEN <<s>>
    ELSE LET k == CHOOSE k \in 1..Len(s) :
                      s[k] = "," /\ \A j \in 1..(k - 1) : s[j] # ","
         IN  <<SubSeq(s, 1, k - 1)>> \o Split(SubSeq(s, k + 1, Len(s)))

\* str in str (substring test)
Contains(s, q) ==
    \E k \in 0..(Len(s) - Len(q)) : SubSeq(s, k + 1, k + Len(q)) = q

(***************************************************************************)
(* Arithmetic.                                                             *)
(***************************************************************************)
Abs(x) == IF x < 0 THEN -x ELSE x

RECURSIVE Gcd(_, _)
Gcd(a, b) == IF b = 0 THEN a ELSE Gcd(b, a % b)

\* the exact quotient n / d (d # 0), in lowest terms with a positive denominator
Rat(n, d) ==
    LET g == Gcd(Abs(n), Abs(d))
        s == IF d < 0 THEN -1 ELSE 1
    IN  [n |-> (s * n) \div g, d |-> (s * d) \div g]

RInt(k) == [n |-> k, d |-> 1]
RSub(a, b) == Rat(a.n * b.d - b.n * a.d, a.d * b.d)
RMul(a, b) == Rat(a.n * b.n, a.d * b.d)
RAdd(a, b) == Rat(a.n * b.d + b.n * a.d, a.d * b.d)

RECURSIVE SumOf(_, _)
\* sum(f(x) for x in s), accumulated from the left as the loop does
SumOf(s, field) ==
    IF s = <<>> THEN 0
    ELSE SumOf(SubSeq(s, 1, Len(s) - 1), field) + s[Len(s)][field]

SeqMin(s) == CHOOSE m \in {s[k] : k \in 1..Len(s)} : \A k \in 1..Len(s) : m <= s[k]
SeqMax(s) == CHOOSE m \in {s[k] : k \in 1..Len(s)} : \A k \in 1..Len(s) : m >= s[k]

(***************************************************************************)
(* matplotlib.pyplot keeps one process-wide registry of open figures and   *)
(* every plt.* call acts on the current one, the figure made or used last. *)
(* figs is that registry in activation order: the current figure is the    *)
(* last element.  Of a line the registry keeps who plotted it (the slot,   *)
(* by, which the program does not store) and its label; the values drawn   *)
(* and the title are kept in the log of the invocation that drew them      *)
(* (figops), where the claims read them.                                   *)
(***************************************************************************)
FigNums(fs) == {fs[k].num : k \in 1..Len(fs)}

\* a handler that draws on whatever figure is current and opens one only when none is open
PltFigureReuse(fs) ==
    IF fs = <<>> THEN <<[num |-> 1, lines |-> <<>>]>> ELSE fs

\* plt.figure(): a new figure, numbered one above the highest open number, made current
PltFigure(fs) ==
    LET n == IF fs = <<>> THEN 1
             ELSE 1 + (CHOOSE m \in FigNums(fs) : \A k \in FigNums(fs) : m >= k)
    IN  Append(fs, [num |-> n, lines |-> <<>>])

\* plt.gcf() as every plt.* drawing call uses it: the current figure, made if none is open
PltGcf(fs) == IF fs = <<>> THEN PltFigure(fs) ELSE fs

\* plt.plot(xs, ys, label=...): one more line on the current figure
PltPlot(fs, line) ==
    LET g == PltGcf(fs)
    IN  [g EXCEPT ![Len(g)].lines = Append(@, line)]

\* plt.savefig(buffer): the image of the current figure
PltSavefig(fs) ==
    LET g == PltGcf(fs)
    IN  [num |-> g[Len(g)].num, lines |-> g[Len(g)].lines]

\* plt.close(): the current figure leaves the registry; the one used before it is current again
PltClose(fs) == IF fs = <<>> THEN fs ELSE SubSeq(fs, 1, Len(fs) - 1)

(***************************************************************************)
(* The gateways.  What a call answers is the environment's choice (out):   *)
(*   [kind |-> "raise", exc |-> e]   the call raises e (network, API error) *)
(*   [kind |-> "malformed"]          it returns an object without the      *)
(*                                   expected attributes: the first use    *)
(*                                   raises                                *)
(*   [kind |-> "ok", data |-> d]     it returns d                          *)
(* A client that was left None at startup has no method to call: the       *)
(* attribute lookup raises AttributeError before anything is sent.         *)
(***************************************************************************)
Ok(v) == [ok |-> TRUE, v |-> v, exc |-> "none"]
Raise(e) == [ok |-> FALSE, v |-> <<>>, exc |-> e]

\* client.<method>(...) for a client that may be None, then the first use of the answer
GatewayCall(client, out) ==
    IF client # "client" THEN Raise("AttributeError")
    ELSE IF out.kind = "raise" THEN Raise(out.exc)
    ELSE IF out.kind = "malformed" THEN Raise("MalformedResponse")
    ELSE Ok(out.data)

\* a / b * 100 in Python: ZeroDivisionError when b is zero
PctOf(a, b) ==
    IF b = 0 THEN Raise("ZeroDivisionError")
    ELSE Ok(RMul(Rat(a, b), RInt(100)))

\* StockBarsRequest(symbol_or_symbols, timeframe, start = now - timedelta(days))
StockBarsRequest(symbols, timeframe, days) ==
    [op |-> "get_stock_bars", symbols |-> symbols, timeframe |-> timeframe, days |-> days]

TradingRequest(op) ==
    [op |-> op, symbols |-> <<>>, timeframe |-> "none", days |-> 0]

\* the test without its length half
HasKeyOnly(data, symbol) == symbol \in DOMAIN data

\* symbol in bars.data and len(bars.data[symbol]) > 0
HasBars(data, symbol) == symbol \in DOMAIN data /\ Len(data[symbol]) > 0

\* bars.data[symbol] and the use of its first or last element: KeyError without an
\* entry, IndexError on an empty list (HasBars guards every use in the handlers)
BarsFor(data, symbol) ==
    IF symbol \notin DOMAIN data THEN Raise("KeyError")
    ELSE IF data[symbol] = <<>> THEN Raise("IndexError")
    ELSE Ok(data[symbol])

\* the percentage without its zero guard
UnguardedPct(a, b) ==
    IF b = 0 THEN Raise("ZeroDivisionError") ELSE Ok(RMul(Rat(a, b), RInt(100)))

\* (a / b) * 100 if b != 0 else 0
GuardedPct(a, b) ==
    IF b # 0 THEN Ok(RMul(Rat(a, b), RInt(100))) ELSE Ok(RInt(0))

\* the handler without its empty-list test
NoPositionsUnchecked(positions) == FALSE

\* not positions
NoPositions(positions) == positions = <<>>

(***************************************************************************)
(* Messages.  A handler's outcome is what it sent, the gateway requests it *)
(* attempted, the figure registry it leaves and the figures it touched;    *)
(* unhandled names a failure that left the handler uncaught.               *)
(***************************************************************************)
NoMsg == [kind |-> "nothing"]

\* the except clause of every handler: f"... Error <doing>: {str(e)}"
ErrorMsg(cmd, e) == [kind |-> "error", cmd |-> cmd, detail |-> e]

\* a path that ends without awaiting a send
OutcomeWithoutReply(msg, requests, fs, figops) ==
    [msg |-> NoMsg, raised |-> "none", requests |-> requests, figs |-> fs, figops |-> figops]

Outcome(msg, requests, fs, figops) ==
    [msg |-> msg, raised |-> "none", requests |-> requests, figs |-> fs, figops |-> figops]

Failure(e, requests, fs, figops) ==
    [msg |-> NoMsg, raised |-> e, requests |-> requests, figs |-> fs, figops |-> figops]

\* a narrower except clause: only the gateway's own errors are caught
CatchOnlyApiErrors(cmd, r) ==
    [msg |-> IF r.raised = "none" THEN r.msg
             ELSE IF r.raised = "APIError" THEN ErrorMsg(cmd, r.raised) ELSE NoMsg,
     unhandled |-> IF r.raised = "APIError" THEN "none" ELSE r.raised,
     requests |-> r.requests, figs |-> r.figs, figops |-> r.figops]

\* try: <body> except Exception as e: await interaction.followup.send(error text)
\* r is what the body did up to its send or up to the statement that raised
Catch(cmd, r) ==
    [msg |-> IF r.raised = "none" THEN r.msg ELSE ErrorMsg(cmd, r.raised),
     unhandled |-> "none",
     requests |-> r.requests, figs |-> r.figs, figops |-> r.figops]

\* code outside any try block: a failure leaves the handler
NoCatch(cmd, r) ==
    [msg |-> r.msg, unhandled |-> r.raised,
     requests |-> r.requests, figs |-> r.figs, figops |-> r.figops]

(***************************************************************************)
(* The static category table of popular_stocks, in the dict's order.  A    *)
(* key is a string of characters (it is compared with the lower-cased      *)
(* argument); the ticker symbols of a category are never converted and     *)
(* are kept whole.                                                         *)
(***************************************************************************)
stock_categories ==
    <<
      [key |-> <<"t","e","c","h">>,
       name |-> "Technology Giants",
       stocks |-> <<"AAPL", "MSFT", "GOOGL", "META", "NVDA", "TSLA", "AMD", "INTC", "CRM", "ORCL">>],
      [key |-> <<"f","i","n","a","n","c","e">>,
       name |-> "Financial Services",
       stocks |-> <<"JPM", "BAC", "WFC", "GS", "MS", "C", "BLK", "AXP", "SCHW", "USB">>],
      [key |-> <<"h","e","a","l","t","h","c","a","r","e">>,
       name |-> "Healthcare & Pharma",
       stocks |-> <<"JNJ", "UNH", "PFE", "ABBV", "TMO", "MRK", "ABT", "LLY", "DHR", "CVS">>],
      [key |-> <<"c","o","n","s","u","m","e","r">>,
       name |-> "Consumer Goods",
       stocks |-> <<"AMZN", "WMT", "HD", "NKE", "MCD", "SBUX", "TGT", "LOW", "COST", "PG">>],
      [key |-> <<"e","n","e","r","g","y">>,
       name |-> "Energy & Oil",
       stocks |-> <<"XOM", "CVX", "COP", "SLB", "EOG", "PXD", "MPC", "PSX", "VLO", "OXY">>],
      [key |-> <<"e","n","t","e","r","t","a","i","n","m","e","n","t">>,
       name |-> "Media & Entertainment",
       stocks |-> <<"DIS", "NFLX", "CMCSA", "WBD", "PARA", "EA", "TTWO", "LYV", "SPOT", "RBLX">>],
      [key |-> <<"a","u","t","o","m","o","t","i","v","e">>,
       name |-> "Automotive",
       stocks |-> <<"TSLA", "F", "GM", "RIVN", "LCID", "NIO", "XPEV", "LI", "TM", "HMC">>],
      [key |-> <<"a","i","r","l","i","n","e","s">>,
       name |-> "Airlines & Travel",
       stocks |-> <<"DAL", "AAL", "UAL", "LUV", "ALK", "JBLU", "SAVE", "HA", "SKYW", "ALGT">>]
    >>

\* stock_categories.keys(), in order
CategoryKeys == [k \in 1..Len(stock_categories) |-> stock_categories[k].key]

\* category in stock_categories
IsCategory(c) == \E k \in 1..Len(stock_categories) : stock_categories[k].key = c

\* stock_categories[category]
CategoryInfo(c) ==
    stock_categories[CHOOSE k \in 1..Len(stock_categories) : stock_categories[k].key = c]

\* the (name, value) pairs of browse_categories: the command each entry advertises
browse_list ==
    <<"/popular tech", "/popular finance", "/popular healthcare", "/popular consumer",
      "/popular energy", "/popular entertainment", "/popular automotive",
      "/popular airlines">>

\* the (name, value) pairs of help_command: the command each entry describes
commands_info ==
    <<"/search", "/browse", "/popular", "/price", "/chart", "/compare", "/account",
      "/positions", "/market", "/help">>

(***************************************************************************)
(* The handlers.  Each <name>_body is the code inside the handler's try    *)
(* block, from the statement after the deferral to the followup.send call, *)
(* as a function of the arguments, of what the gateway answers and of the  *)
(* figure registry; <name> wraps it in the handler's except clause.        *)
(* i is the slot of the invocation; fs the figure registry it finds.       *)
(***************************************************************************)

\* the clamp without its lower branch
ClampDaysUpperOnly(days) == IF days > MaxDays THEN MaxDays ELSE days

\* if days > 365: days = 365 / elif days < 1: days = 1
ClampDays(days) ==
    IF days > MaxDays THEN MaxDays
    ELSE IF days < MinDays THEN MinDays
    ELSE days

Closes(data) == [k \in 1..Len(data) |-> data[k].close]

\* /price
get_price_body(i, symbolArg, out, fs) ==
    LET symbol == Upper(symbolArg)
        req == StockBarsRequest(symbol, "Minute", 1)
        bars == GatewayCall(alpaca_data_client, out)
    IN  IF ~bars.ok THEN Failure(bars.exc, <<req>>, fs, <<>>)
        ELSE IF HasBars(bars.v, symbol)
        THEN LET series == BarsFor(bars.v, symbol)
                 latest_bar == series.v[Len(series.v)]
                 change == latest_bar.close - latest_bar.open
                 change_pct == PctOf(change, latest_bar.open)
             IN  IF ~series.ok THEN Failure(series.exc, <<req>>, fs, <<>>)
                 ELSE IF ~change_pct.ok THEN Failure(change_pct.exc, <<req>>, fs, <<>>)
                 ELSE Outcome([kind |-> "embed", cmd |-> "price", symbol |-> symbol,
                               green |-> latest_bar.close >= latest_bar.open,
                               price |-> latest_bar.close, open |-> latest_bar.open,
                               high |-> latest_bar.high, low |-> latest_bar.low,
                               volume |-> latest_bar.volume,
                               change |-> change, change_pct |-> change_pct.v,
                               file |-> "none"],
                              <<req>>, fs, <<>>)
        ELSE Outcome([kind |-> "notfound", cmd |-> "price", symbol |-> symbol],
                     <<req>>, fs, <<>>)

get_price(i, symbolArg, out, fs) == Catch("price", get_price_body(i, symbolArg, out, fs))

\* /chart; saveOk: whether plt.savefig succeeds
get_chart_body(i, symbolArg, daysArg, out, saveOk, fs) ==
    LET symbol == Upper(symbolArg)
        days == ClampDays(daysArg)
        req == StockBarsRequest(symbol, "Day", days)
        bars == GatewayCall(alpaca_data_client, out)
    IN  IF ~bars.ok THEN Failure(bars.exc, <<req>>, fs, <<>>)
        ELSE IF HasBars(bars.v, symbol)
        THEN LET series == BarsFor(bars.v, symbol)
                 closes == Closes(series.v)
                 f1 == PltFigure(fs)
                 num == f1[Len(f1)].num
                 f3 == PltPlot(f1, [by |-> i, label |-> symbol])
                 min_price == SeqMin(closes)
                 max_price == SeqMax(closes)
                 drawn == <<[op |-> "figure", num |-> num],
                            [op |-> "plot", num |-> num, label |-> symbol, ys |-> closes],
                            [op |-> "title", num |-> num, symbol |-> symbol, days |-> days]>>
             IN  IF ~series.ok THEN Failure(series.exc, <<req>>, f1, <<drawn[1]>>)
                 ELSE IF ~saveOk THEN Failure("SaveError", <<req>>, f3, drawn)
                 ELSE
                 LET image == PltSavefig(f3)
                     f4 == PltClose(f3)
                     ops == drawn \o <<[op |-> "savefig", num |-> image.num],
                                       [op |-> "close", num |-> f3[Len(f3)].num]>>
                     first_price == closes[1]
                     last_price == closes[Len(closes)]
                     change == last_price - first_price
                     change_pct == PctOf(change, first_price)
                 IN  IF ~change_pct.ok THEN Failure(change_pct.exc, <<req>>, f4, ops)
                     ELSE Outcome([kind |-> "embed", cmd |-> "chart", symbol |-> symbol,
                                   days |-> days, green |-> change >= 0,
                                   price |-> last_price, change |-> change,
                                   change_pct |-> change_pct.v,
                                   high |-> max_price, low |-> min_price,
                                   file |-> image],
                                  <<req>>, f4, ops)
        ELSE Outcome([kind |-> "notfound", cmd |-> "chart", symbol |-> symbol],
                     <<req>>, fs, <<>>)

get_chart(i, symbolArg, daysArg, out, saveOk, fs) ==
    Catch("chart", get_chart_body(i, symbolArg, daysArg, out, saveOk, fs))

\* /account
get_account_body(i, out, fs) ==
    LET req == TradingRequest("get_account")
        got == GatewayCall(alpaca_trading_client, out)
    IN  IF ~got.ok THEN Failure(got.exc, <<req>>, fs, <<>>)
        ELSE
        LET account == got.v
            portfolio_value == account.portfolio_value
            last_equity == account.last_equity
            daily_change == portfolio_value - last_equity
            daily_change_pct == GuardedPct(daily_change, last_equity)
        IN  IF ~daily_change_pct.ok
            THEN Failure(daily_change_pct.exc, <<req>>, fs, <<>>)
            ELSE
            Outcome([kind |-> "embed", cmd |-> "account",
                     equity |-> account.equity, cash |-> account.cash,
                     buying_power |-> account.buying_power,
                     daily_change |-> daily_change,
                     daily_change_pct |-> daily_change_pct.v,
                     up |-> daily_change >= 0,
                     status |-> account.status,
                     pattern_day_trader |-> account.pattern_day_trader,
                     trading_blocked |-> account.trading_blocked,
                     paper |-> (Len(account.account_number) > 0
                                /\ account.account_number[1] = "P"),
                     file |-> "none"],
                    <<req>>, fs, <<>>)

get_account(i, out, fs) == Catch("account", get_account_body(i, out, fs))

\* for position in positions[:10]: one field per position
PositionField(position) ==
    [name |-> position.symbol, qty |-> position.qty,
     current_price |-> position.current_price,
     market_value |-> position.market_value,
     unrealized_pl |-> position.unrealized_pl,
     unrealized_plpc |-> position.unrealized_plpc * 100]

\* /positions
get_positions_body(i, out, fs) ==
    LET req == TradingRequest("get_all_positions")
        got == GatewayCall(alpaca_trading_client, out)
    IN  IF ~got.ok THEN Failure(got.exc, <<req>>, fs, <<>>)
        ELSE
        LET positions == got.v
        IN  IF NoPositions(positions)
            THEN Outcome([kind |-> "empty", cmd |-> "positions"], <<req>>, fs, <<>>)
            ELSE
            LET shown == SubSeq(positions, 1,
                                IF Len(positions) < MaxDisplayed THEN Len(positions)
                                ELSE MaxDisplayed)
                total_value == SumOf(shown, "market_value")
                total_pl == SumOf(shown, "unrealized_pl")
                total_pl_pct == GuardedPct(total_pl, total_value - total_pl)
            IN  IF ~total_pl_pct.ok
                THEN Failure(total_pl_pct.exc, <<req>>, fs, <<>>)
                ELSE
                Outcome([kind |-> "embed", cmd |-> "positions",
                         fields |-> [k \in 1..Len(shown) |-> PositionField(shown[k])],
                         more |-> IF Len(positions) > MaxDisplayed
                                  THEN Len(positions) - MaxDisplayed ELSE 0,
                         total_value |-> total_value, total_pl |-> total_pl,
                         total_pl_pct |-> total_pl_pct.v,
                         file |-> "none"],
                        <<req>>, fs, <<>>)

get_positions(i, out, fs) == Catch("positions", get_positions_body(i, out, fs))

\* /market
market_status_body(i, out, fs) ==
    LET req == TradingRequest("get_clock")
        got == GatewayCall(alpaca_trading_client, out)
    IN  IF ~got.ok THEN Failure(got.exc, <<req>>, fs, <<>>)
        ELSE
        LET clock == got.v
        IN  Outcome([kind |-> "embed", cmd |-> "market", green |-> clock.is_open,
                     status |-> IF clock.is_open THEN "OPEN" ELSE "CLOSED",
                     timestamp |-> clock.timestamp, next_open |-> clock.next_open,
                     next_close |-> clock.next_close, file |-> "none"],
                    <<req>>, fs, <<>>)

market_status(i, out, fs) == Catch("market", market_status_body(i, out, fs))

\* the price relative to the first close, without the "- 1"
NormalizeNoOffset(closes) ==
    IF closes[1] = 0 THEN Raise("ZeroDivisionError")
    ELSE Ok([k \in 1..Len(closes) |-> RMul(Rat(closes[k], closes[1]), RInt(100))])

\* normalized = [(price / closes[0] - 1) * 100 for price in closes]
Normalize(closes) ==
    IF closes[1] = 0 THEN Raise("ZeroDivisionError")
    ELSE Ok([k \in 1..Len(closes) |->
                RMul(RSub(Rat(closes[k], closes[1]), RInt(1)), RInt(100))])

\* symbol_list = [s.strip().upper() for s in symbols.split(',')]
SymbolList(symbolsArg) ==
    LET parts == Split(symbolsArg)
    IN  [k \in 1..Len(parts) |-> Upper(Strip(parts[k]))]

\* for idx, symbol in enumerate(symbol_list): fetch, normalize, plot.
\* acc is the loop's state: the registry, the requests made, the figure operations
\* and the failure that ended the loop, if any; outs[idx] answers the idx-th call.
RECURSIVE CompareLoop(_, _, _, _, _, _)
CompareLoop(i, symbol_list, days, outs, idx, acc) ==
    IF idx > Len(symbol_list) THEN acc
    ELSE
    LET symbol == symbol_list[idx]
        req == StockBarsRequest(symbol, "Day", days)
        reqs == Append(acc.requests, req)
        bars == GatewayCall(alpaca_data_client, outs[idx])
    IN  IF ~bars.ok THEN [acc EXCEPT !.raised = bars.exc, !.requests = reqs]
        ELSE IF HasBars(bars.v, symbol)
        THEN LET series == BarsFor(bars.v, symbol)
                 closes == Closes(series.v)
                 normalized == Normalize(closes)
                 cur == acc.figs[Len(acc.figs)].num
             IN  IF ~series.ok
                 THEN [acc EXCEPT !.raised = series.exc, !.requests = reqs]
                 ELSE IF ~normalized.ok
                 THEN [acc EXCEPT !.raised = normalized.exc, !.requests = reqs]
                 ELSE CompareLoop(i, symbol_list, days, outs, idx + 1,
                         [acc EXCEPT
                            !.requests = reqs,
                            !.figs = PltPlot(acc.figs, [by |-> i, label |-> symbol]),
                            !.figops = Append(@, [op |-> "plot", num |-> cur,
                                                  label |-> symbol, ys |-> normalized.v])])
        ELSE CompareLoop(i, symbol_list, days, outs, idx + 1,
                         [acc EXCEPT !.requests = reqs])

\* /compare
compare_stocks_body(i, symbolsArg, daysArg, outs, saveOk, fs) ==
    LET symbol_list == SymbolList(symbolsArg)
    IN  IF Len(symbol_list) > MaxCompare
        THEN Outcome([kind |-> "reject", cmd |-> "compare"], <<>>, fs, <<>>)
        ELSE
        LET days == ClampDays(daysArg)
            f1 == PltFigure(fs)
            num == f1[Len(f1)].num
            loop == CompareLoop(i, symbol_list, days, outs, 1,
                        [figs |-> f1, requests |-> <<>>, raised |-> "none",
                         figops |-> <<[op |-> "figure", num |-> num]>>])
        IN  IF loop.raised # "none"
            THEN Failure(loop.raised, loop.requests, loop.figs, loop.figops)
            ELSE
            LET f2 == loop.figs
                titled == Append(loop.figops,
                                 [op |-> "title", num |-> f2[Len(f2)].num, days |-> days])
            IN  IF ~saveOk THEN Failure("SaveError", loop.requests, f2, titled)
                ELSE
                LET image == PltSavefig(f2)
                    f3 == PltClose(f2)
                    ops == titled \o <<[op |-> "savefig", num |-> image.num],
                                        [op |-> "close", num |-> f2[Len(f2)].num]>>
                IN  Outcome([kind |-> "embed", cmd |-> "compare",
                             symbols |-> symbol_list, days |-> days, file |-> image],
                            loop.requests, f3, ops)

compare_stocks(i, symbolsArg, daysArg, outs, saveOk, fs) ==
    Catch("compare", compare_stocks_body(i, symbolsArg, daysArg, outs, saveOk, fs))

\* matches = [asset for asset in assets if query in symbol.upper() or query in name.upper()]
RECURSIVE Matches(_, _)
Matches(assets, query) ==
    IF assets = <<>> THEN <<>>
    ELSE LET asset == Head(assets)
             rest == Matches(Tail(assets), query)
         IN  IF Contains(Upper(asset.symbol), query) \/ Contains(Upper(asset.name), query)
             THEN <<asset>> \o rest
             ELSE rest

\* /search
search_stocks_body(i, queryArg, out, fs) ==
    LET query == Strip(Upper(queryArg))
        req == TradingRequest("get_all_assets")
        got == GatewayCall(alpaca_trading_client, out)
    IN  IF ~got.ok THEN Failure(got.exc, <<req>>, fs, <<>>)
        ELSE
        LET all == Matches(got.v, query)
        IN  IF all = <<>>
            THEN Outcome([kind |-> "nomatch", cmd |-> "search", query |-> query],
                         <<req>>, fs, <<>>)
            ELSE
            LET matches == SubSeq(all, 1, IF Len(all) < MaxMatches THEN Len(all)
                                          ELSE MaxMatches)
            IN  Outcome([kind |-> "embed", cmd |-> "search", query |-> query,
                         count |-> Len(matches),
                         fields |-> [k \in 1..Len(matches) |->
                                       [name |-> matches[k].symbol,
                                        asset_name |-> matches[k].name,
                                        exchange |-> matches[k].exchange,
                                        tradable |-> matches[k].tradable,
                                        fractionable |-> matches[k].fractionable]],
                         capped |-> Len(matches) = MaxMatches,
                         file |-> "none"],
                        <<req>>, fs, <<>>)

search_stocks(i, queryArg, out, fs) == Catch("search", search_stocks_body(i, queryArg, out, fs))

\* for symbol in symbols: the field of one symbol of the category
PopularField(data, symbol) ==
    IF HasBars(data, symbol)
    THEN LET series == BarsFor(data, symbol)
             latest_bar == series.v[Len(series.v)]
             change == latest_bar.close - latest_bar.open
             change_pct == PctOf(change, latest_bar.open)
         IN  IF ~series.ok THEN series
             ELSE IF ~change_pct.ok THEN change_pct
             ELSE Ok([name |-> symbol, available |-> TRUE, price |-> latest_bar.close,
                      up |-> change >= 0, change_pct |-> change_pct.v])
    ELSE Ok([name |-> symbol, available |-> FALSE])

\* /popular, the try block (the category is a key of the table)
popular_stocks_body(i, category, out, fs) ==
    LET cat_info == CategoryInfo(category)
        symbols == cat_info.stocks
        req == StockBarsRequest(symbols, "Minute", 1)
        bars == GatewayCall(alpaca_data_client, out)
    IN  IF ~bars.ok THEN Failure(bars.exc, <<req>>, fs, <<>>)
        ELSE
        LET made == [k \in 1..Len(symbols) |-> PopularField(bars.v, symbols[k])]
        IN  IF \E k \in 1..Len(symbols) : ~made[k].ok
            THEN Failure(made[CHOOSE k \in 1..Len(symbols) :
                                 ~made[k].ok /\ \A j \in 1..(k - 1) : made[j].ok].exc,
                         <<req>>, fs, <<>>)
            ELSE Outcome([kind |-> "embed", cmd |-> "popular", category |-> category,
                          name |-> cat_info.name, count |-> Len(symbols),
                          fields |-> [k \in 1..Len(symbols) |-> made[k].v],
                          file |-> "none"],
                         <<req>>, fs, <<>>)

\* /popular: the lookup precedes the try block
popular_stocks(i, categoryArg, out, fs) ==
    LET category == Lower(categoryArg)
    IN  IF ~IsCategory(category)
        THEN NoCatch("popular",
                     Outcome([kind |-> "invalid", cmd |-> "popular",
                              available |-> CategoryKeys],
                             <<>>, fs, <<>>))
        ELSE Catch("popular", popular_stocks_body(i, category, out, fs))

\* /browse: no try block, no deferral
browse_categories(i, fs) ==
    NoCatch("browse",
            Outcome([kind |-> "embed", cmd |-> "browse", fields |-> browse_list,
                     file |-> "none"],
                    <<>>, fs, <<>>))

\* /help: no try block, no deferral
help_command(i, fs) ==
    NoCatch("help",
            Outcome([kind |-> "embed", cmd |-> "help", fields |-> commands_info,
                     file |-> "none"],
                    <<>>, fs, <<>>))

(***************************************************************************)
(* The environment: the arguments users give and the answers the gateways  *)
(* return.  Each set comes in two sizes: the small one (w = FALSE) for     *)
(* interleaved invocations, the large one (w = TRUE) for the invocations   *)
(* of one slot, run one after the other.                                   *)
(***************************************************************************)
CloseVals == {0, 100, 110, 121}

\* a bar that opens where the previous one closed
Bar(o, c, t) ==
    [open |-> o, high |-> IF o > c THEN o ELSE c, low |-> IF o < c THEN o ELSE c,
     close |-> c, volume |-> 1000, timestamp |-> t]

BarsOf(closes) ==
    [k \in 1..Len(closes) |-> Bar(IF k = 1 THEN closes[1] ELSE closes[k - 1], closes[k], k)]

SeriesSet(w) ==
    IF w THEN UNION {[1..n -> CloseVals] : n \in 1..MaxBars}
    ELSE {<<100, 110>>}

ApiError == [kind |-> "raise", exc |-> "APIError"]
Malformed == [kind |-> "malformed"]
Answer(d) == [kind |-> "ok", data |-> d]

\* what get_stock_bars can answer for one symbol: an error, a malformed object,
\* no entry for the symbol, an empty bar list, or a bar series
BarsAnswers(symbol, w) ==
    {ApiError, Answer(<<>>)}
    \cup {Answer([s \in {symbol} |-> BarsOf(c)]) : c \in SeriesSet(w)}
    \cup (IF w THEN {Malformed, Answer([s \in {symbol} |-> <<>>])}
          ELSE {Answer([s \in {symbol} |-> BarsOf(<<0, 5>>)])})

SymbolArgs(w) == IF w THEN {<<"a">>, <<"a", "B">>} ELSE {<<"a">>}

DayArgs == (0 - DayMargin)..(MaxDays + DayMargin)

SixSymbols == <<"a", ",", "b", ",", "c", ",", "d", ",", "e", ",", "f">>

CompareSymbolArgs(w) ==
    {<<"a", ",", "b">>, SixSymbols}
    \cup (IF w THEN {<<"a">>, <<" ", "a", " ", ",", " ", "b", " ">>, <<>>,
                     <<"a", ",", "b", ",", "c", ",", "d", ",", "e">>,
                     <<"a", ",", "b", ",", "c", ",", "d", ",", "e", ",">>}
          ELSE {})

AccountOf(pv, le, number) ==
    [equity |-> pv, cash |-> 50, buying_power |-> 100, portfolio_value |-> pv,
     last_equity |-> le, status |-> "ACTIVE", pattern_day_trader |-> FALSE,
     trading_blocked |-> FALSE, account_number |-> number]

AccountAnswers(w) ==
    {ApiError}
    \cup (IF w
          THEN {Malformed}
               \cup {Answer(AccountOf(pv, le, number)) :
                        pv \in {0, 90, 100, 110}, le \in {0, 100, 200},
                        number \in {<<"P", "A", "1">>, <<"A", "1">>, <<>>}}
          ELSE {Answer(AccountOf(110, 100, <<"P", "A", "1">>)),
                Answer(AccountOf(110, 0, <<"P", "A", "1">>))})

Position(k, v) ==
    [symbol |-> k, qty |-> 1, current_price |-> v.mv, market_value |-> v.mv,
     unrealized_pl |-> v.pl, unrealized_plpc |-> 1]

PositionVals ==
    {[mv |-> 10, pl |-> 2], [mv |-> 5, pl |-> -1], [mv |-> 3, pl |-> 3]}

\* position lists of every length up to MaxPositions: k positions of one kind, then the rest of another
PositionLists(w) ==
    IF w
    THEN {[j \in 1..n |-> Position(j, IF j <= k THEN p ELSE q)] :
             n \in 0..MaxPositions, k \in 0..MaxPositions, p \in PositionVals, q \in PositionVals}
    ELSE {<<>>, <<Position(1, [mv |-> 10, pl |-> 2])>>}

PositionsAnswers(w) ==
    {ApiError} \cup (IF w THEN {Malformed} ELSE {}) \cup {Answer(l) : l \in PositionLists(w)}

ClockAnswers(w) ==
    {ApiError} \cup (IF w THEN {Malformed} ELSE {})
    \cup {Answer([is_open |-> o, timestamp |-> 1, next_open |-> 2, next_close |-> 3]) :
             o \in (IF w THEN BOOLEAN ELSE {TRUE})}

Asset(symbol, name, tradable, fractionable) ==
    [symbol |-> symbol, name |-> name, exchange |-> "NYSE",
     tradable |-> tradable, fractionable |-> fractionable]

\* an asset list: one asset that matches no query, then n that match "A"
AssetList(n) ==
    [k \in 1..(n + 1) |->
        IF k = 1 THEN Asset(<<"X">>, <<"x", " ", "C", "o">>, TRUE, FALSE)
        ELSE Asset(<<"A">>, <<"a", " ", "C", "o">>, k % 2 = 0, k % 3 = 0)]

AssetsAnswers(w) ==
    {ApiError} \cup (IF w THEN {Malformed} ELSE {})
    \cup {Answer(AssetList(n)) : n \in (IF w THEN 0..MaxAssets ELSE {2})}

QueryArgs(w) ==
    {<<"a">>, <<"z", "z">>}
    \cup (IF w THEN {<<" ", "A", " ">>, <<"c", "o">>, <<>>} ELSE {})

\* a string in every letter case
CaseVariants(s) ==
    {[k \in 1..Len(s) |-> IF k \in U THEN CharUpper(s[k]) ELSE s[k]] :
        U \in SUBSET (1..Len(s))}

CategoryArgs(w) ==
    {<<"T", "e", "c", "h">>, <<"c", "r", "y", "p", "t", "o">>}
    \cup (IF w
          THEN UNION {IF Len(CategoryKeys[k]) <= MaxCaseLen
                      THEN CaseVariants(CategoryKeys[k])
                      ELSE {CategoryKeys[k], Upper(CategoryKeys[k]),
                            <<CharUpper(CategoryKeys[k][1])>> \o Tail(CategoryKeys[k])} :
                      k \in 1..Len(CategoryKeys)}
               \cup {<<>>, <<"t", "e", "c">>, <<"t", "e", "c", "h", "s">>,
                     <<" ", "t", "e", "c", "h">>}
          ELSE {})

\* what get_stock_bars can answer for the symbols of a category
PopularAnswers(symbols, w) ==
    LET good == BarsOf(<<100, 110>>)
        all == {symbols[k] : k \in 1..Len(symbols)}
    IN  {ApiError, Answer([s \in all |-> good])}
        \cup (IF w
              THEN {Malformed, Answer(<<>>),
                    Answer([s \in all \ {symbols[1]} |-> good]),
                    Answer([s \in all |-> IF s = symbols[2] THEN <<>> ELSE good]),
                    Answer([s \in all |-> IF s = symbols[3] THEN BarsOf(<<0, 5>>) ELSE good])}
              ELSE {Answer([s \in all \ {symbols[1]} |-> good])})

NoArgs == [none |-> TRUE]

DeferringCommands ==
    {"price", "chart", "compare", "account", "positions", "market", "search", "popular"}

\* the arguments a user gives to a command
ArgsOf(cmd, w) ==
    CASE cmd = "price" -> {[symbol |-> x] : x \in SymbolArgs(w)}
      [] cmd = "chart" ->
            {[symbol |-> x, days |-> DefaultDays] : x \in SymbolArgs(w)}
            \cup (IF w THEN {[symbol |-> <<"a">>, days |-> d] : d \in DayArgs} ELSE {})
      [] cmd = "compare" ->
            {[symbols |-> x, days |-> DefaultDays] : x \in CompareSymbolArgs(w)}
            \cup (IF w
                  THEN {[symbols |-> <<"a">>, days |-> d] : d \in DayArgs}
                       \cup {[symbols |-> SixSymbols, days |-> d] :
                                d \in {0 - DayMargin, MaxDays + DayMargin}}
                  ELSE {})
      [] cmd = "search" -> {[query |-> x] : x \in QueryArgs(w)}
      [] cmd = "popular" -> {[category |-> x] : x \in CategoryArgs(w)}
      [] OTHER -> {NoArgs}

\* the answers to the calls of one compare invocation, one per symbol of the list
CompareAnswers(symbol_list, days, w) ==
    LET n == Len(symbol_list)
        one(k) == IF n = 1 THEN BarsAnswers(symbol_list[k], w /\ days = DefaultDays)
                  ELSE IF n = 2 THEN BarsAnswers(symbol_list[k], FALSE)
                  ELSE {Answer([x \in {symbol_list[k]} |-> BarsOf(<<100, 110>>)])}
                       \cup (IF k = 3 THEN {ApiError} ELSE {})
    IN  IF n > MaxCompare THEN {<<>>}
        ELSE {f \in [1..n -> UNION {one(k) : k \in 1..n}] : \A k \in 1..n : f[k] \in one(k)}

(***************************************************************************)
(* The state machine.                                                      *)
(***************************************************************************)
IdleInv ==
    [pc |-> "idle", cmd |-> "none", args |-> NoArgs, trace |-> <<>>, sent |-> <<>>,
     requests |-> <<>>, answers |-> <<>>, figops |-> <<>>, unhandled |-> "none"]

Init ==
    /\ boot = "start"
    /\ alpaca_data_client = "unset"
    /\ alpaca_trading_client = "unset"
    /\ inv = [i \in 1..NInv |-> IdleInv]
    /\ figs = <<>>

\* an except clause that resets only the client whose constructor raised
InitClientsKeepOther(dataOk, tradingOk) ==
    [data |-> IF dataOk THEN "client" ELSE "None",
     trading |-> IF dataOk /\ tradingOk THEN "client" ELSE "None"]

\* the module-level try block: both constructors succeed, or one raises and the
\* except clause sets both clients to None
InitClients(dataOk, tradingOk) ==
    IF dataOk /\ tradingOk
    THEN [data |-> "client", trading |-> "client"]
    ELSE [data |-> "None", trading |-> "None"]

Startup ==
    /\ boot = "start"
    /\ \E dataOk \in BOOLEAN, tradingOk \in BOOLEAN :
          LET c == InitClients(dataOk, tradingOk)
          IN  /\ alpaca_data_client' = c.data
              /\ alpaca_trading_client' = c.trading
    /\ boot' = "ready"
    /\ UNCHANGED <<inv, figs>>

\* a deferring command arrives: the handler starts and awaits interaction.response.defer()
Defer(i, w) ==
    /\ boot = "ready"
    /\ inv[i].pc = "idle"
    /\ \E cmd \in DeferringCommands :
          \E args \in ArgsOf(cmd, w) :
             inv' = [inv EXCEPT ![i] = [IdleInv EXCEPT !.pc = "deferred", !.cmd = cmd,
                                                       !.args = args,
                                                       !.trace = <<"defer">>]]
    /\ UNCHANGED <<boot, alpaca_data_client, alpaca_trading_client, figs>>

\* the handler of command cmd in slot i ran from its last await to the next one with
\* outcome r; outs are the answers it was given and via the name of the send it awaits
Deliver(i, cmd, r, outs, client, via) ==
    /\ inv' = [inv EXCEPT ![i] =
                 [@ EXCEPT
                    !.cmd = cmd,
                    !.pc = IF r.unhandled = "none" THEN "sending" ELSE "failed",
                    !.sent = IF r.msg = NoMsg THEN @ ELSE Append(@, r.msg),
                    !.trace = @ \o [k \in 1..Len(r.requests) |-> "gateway"]
                                \o (IF r.msg = NoMsg THEN <<>> ELSE <<via>>),
                    !.requests = r.requests,
                    !.answers = IF client = "client"
                                THEN SubSeq(outs, 1, Len(r.requests)) ELSE <<>>,
                    !.figops = r.figops,
                    !.unhandled = r.unhandled]]
    /\ figs' = r.figs
    /\ UNCHANGED <<boot, alpaca_data_client, alpaca_trading_client>>

\* the model stops starting charts once this many figures are open
FigCap(w) == IF w THEN MaxFigsSeq ELSE MaxFigs

Resumes(i, cmd) == inv[i].pc = "deferred" /\ inv[i].cmd = cmd

RunPrice(i, w) ==
    /\ Resumes(i, "price")
    /\ \E out \in BarsAnswers(Upper(inv[i].args.symbol), w) :
          Deliver(i, inv[i].cmd, get_price(i, inv[i].args.symbol, out, figs), <<out>>,
                  alpaca_data_client, "followup")

RunChart(i, w) ==
    /\ Resumes(i, "chart")
    /\ Len(figs) < FigCap(w)
    /\ \E out \in BarsAnswers(Upper(inv[i].args.symbol),
                              w /\ inv[i].args.days = DefaultDays) :
          \E saveOk \in BOOLEAN :
             Deliver(i, inv[i].cmd, get_chart(i, inv[i].args.symbol, inv[i].args.days, out, saveOk, figs),
                     <<out>>, alpaca_data_client, "followup")

RunCompare(i, w) ==
    /\ Resumes(i, "compare")
    /\ Len(figs) < FigCap(w)
    /\ \E outs \in CompareAnswers(SymbolList(inv[i].args.symbols), inv[i].args.days, w) :
          \E saveOk \in BOOLEAN :
             Deliver(i, inv[i].cmd, compare_stocks(i, inv[i].args.symbols, inv[i].args.days, outs,
                                       saveOk, figs),
                     outs, alpaca_data_client, "followup")

RunAccount(i, w) ==
    /\ Resumes(i, "account")
    /\ \E out \in AccountAnswers(w) :
          Deliver(i, inv[i].cmd, get_account(i, out, figs), <<out>>, alpaca_trading_client, "followup")

RunPositions(i, w) ==
    /\ Resumes(i, "positions")
    /\ \E out \in PositionsAnswers(w) :
          Deliver(i, inv[i].cmd, get_positions(i, out, figs), <<out>>, alpaca_trading_client, "followup")

RunMarket(i, w) ==
    /\ Resumes(i, "market")
    /\ \E out \in ClockAnswers(w) :
          Deliver(i, inv[i].cmd, market_status(i, out, figs), <<out>>, alpaca_trading_client, "followup")

RunSearch(i, w) ==
    /\ Resumes(i, "search")
    /\ \E out \in AssetsAnswers(w) :
          Deliver(i, inv[i].cmd, search_stocks(i, inv[i].args.query, out, figs), <<out>>,
                  alpaca_trading_client, "followup")

RunPopular(i, w) ==
    /\ Resumes(i, "popular")
    /\ LET category == Lower(inv[i].args.category)
           symbols == IF IsCategory(category) THEN CategoryInfo(category).stocks
                      ELSE stock_categories[1].stocks
       IN  \E out \in PopularAnswers(symbols, w) :
              Deliver(i, inv[i].cmd, popular_stocks(i, inv[i].args.category, out, figs), <<out>>,
                      alpaca_data_client, "followup")

\* /browse and /help build their embed and await interaction.response.send_message at once
RunBrowse(i) ==
    /\ boot = "ready"
    /\ inv[i].pc = "idle"
    /\ Deliver(i, "browse", browse_categories(i, figs), <<>>, "client", "send_message")

RunHelp(i) ==
    /\ boot = "ready"
    /\ inv[i].pc = "idle"
    /\ Deliver(i, "help", help_command(i, figs), <<>>, "client", "send_message")

\* the awaited send returns and the handler with it: the interaction is over
SendCompletes(i) ==
    /\ inv[i].pc = "sending"
    /\ inv' = [inv EXCEPT ![i] = IdleInv]
    /\ UNCHANGED <<boot, alpaca_data_client, alpaca_trading_client, figs>>

Step(i, w) ==
    \/ Defer(i, w)
    \/ RunPrice(i, w)
    \/ RunChart(i, w)
    \/ RunCompare(i, w)
    \/ RunAccount(i, w)
    \/ RunPositions(i, w)
    \/ RunMarket(i, w)
    \/ RunSearch(i, w)
    \/ RunPopular(i, w)
    \/ RunBrowse(i)
    \/ RunHelp(i)
    \/ SendCompletes(i)

\* invocations interleave on the event loop; small arguments and answers
Next == Startup \/ \E i \in 1..NInv : Step(i, FALSE)

Spec == Init /\ [][Next]_vars

\* the invocations of one slot, one after the other; large arguments and answers
NextSeq == Startup \/ Step(1, TRUE)

SpecSeq == Init /\ [][NextSeq]_vars

\* The invocations that draw, interleaved.  The environment is the one of Spec with
\* fewer answers: a call either raises or returns a rising series, and of a compare
\* the first call returns data.  A rejected compare is the invocation that does not draw.
DrawingCommands == {"chart", "compare"}

DrawingAnswer(a) ==
    \/ a = ApiError
    \/ /\ a.kind = "ok"
       /\ \A symbol \in DOMAIN a.data : Closes(a.data[symbol]) = <<100, 110>>
       /\ DOMAIN a.data # {}

DrawingAnswers(i) ==
    LET answers == inv'[i].answers
    IN  /\ \A k \in 1..Len(answers) : DrawingAnswer(answers[k])
        /\ (inv'[i].cmd = "compare" /\ answers # <<>>) => answers[1].kind = "ok"

DeferDrawing(i) == Defer(i, FALSE) /\ inv'[i].cmd \in DrawingCommands

RunChartDrawing(i) == RunChart(i, FALSE) /\ DrawingAnswers(i)

RunCompareDrawing(i) == RunCompare(i, FALSE) /\ DrawingAnswers(i)

StepDrawing(i) ==
    \/ DeferDrawing(i)
    \/ RunChartDrawing(i)
    \/ RunCompareDrawing(i)
    \/ SendCompletes(i)

NextDrawing == Startup \/ \E i \in 1..NInv : StepDrawing(i)

SpecDrawing == Init /\ [][NextDrawing]_vars

(***************************************************************************)
(* What the claims read.                                                   *)
(***************************************************************************)
Slots == 1..NInv

\* slot i has run the handler of cmd up to its reply send
Replied(i, cmd) == inv[i].pc = "sending" /\ inv[i].cmd = cmd

\* the one message of slot i (a handler that replied has sent at least one)
MsgOf(i) == inv[i].sent[1]

\* slot i made its k-th gateway call and the gateway returned data
Fetched(i, k) ==
    /\ k <= Len(inv[i].answers)
    /\ inv[i].answers[k].kind = "ok"

\* the sum of one field over a whole list, by index
RECURSIVE Total(_, _, _)
Total(list, field, k) == IF k = 0 THEN 0 ELSE Total(list, field, k - 1) + list[k][field]

(***************************************************************************)
(* C1.  Positions: for a non-empty position list the reported total market *)
(* value, total P&L and total P&L percentage are those of ALL returned     *)
(* positions, not of the first 10 only.                                    *)
(* The code adds the totals up inside the loop over positions[:10], so     *)
(* this fails for a list of 11.                                            *)
(***************************************************************************)
C1_TotalsCoverAllPositions ==
    \A i \in Slots :
        (Replied(i, "positions") /\ Fetched(i, 1) /\ inv[i].answers[1].data # <<>>)
        => LET positions == inv[i].answers[1].data
               value == Total(positions, "market_value", Len(positions))
               pl == Total(positions, "unrealized_pl", Len(positions))
               m == MsgOf(i)
           IN  /\ m.kind = "embed"
               /\ m.total_value = value
               /\ m.total_pl = pl
               /\ IF value - pl = 0 THEN m.total_pl_pct.n = 0
                  ELSE m.total_pl_pct.n * (value - pl) = pl * 100 * m.total_pl_pct.d

(***************************************************************************)
(* The failure an invocation met, told from its arguments, the state of    *)
(* the clients and the answers it was given: "none", or the name of the    *)
(* first failure in the order the handler's statements run.                *)
(***************************************************************************)
AnswerFailure(a) ==
    IF a.kind = "raise" THEN a.exc
    ELSE IF a.kind = "malformed" THEN "MalformedResponse"
    ELSE "none"

LatestOpenIsZero(data, symbol) ==
    /\ symbol \in DOMAIN data
    /\ data[symbol] # <<>>
    /\ data[symbol][Len(data[symbol])].open = 0

FirstCloseIsZero(data, symbol) ==
    /\ symbol \in DOMAIN data
    /\ data[symbol] # <<>>
    /\ data[symbol][1].close = 0

\* the chart was drawn and titled but never saved
SaveFailed(i) ==
    /\ \E k \in 1..Len(inv[i].figops) : inv[i].figops[k].op = "title"
    /\ \A k \in 1..Len(inv[i].figops) : inv[i].figops[k].op # "savefig"

TooManySymbols(i) == Len(Split(inv[i].args.symbols)) > 5

CaseMatches(arg, key) ==
    /\ Len(arg) = Len(key)
    /\ \A k \in 1..Len(key) : arg[k] \in {key[k], CharUpper(key[k])}

KnownCategory(i) == \E k \in 1..Len(CategoryKeys) : CaseMatches(inv[i].args.category, CategoryKeys[k])

\* the invocation in slot i is one that calls a gateway
AttemptsGateway(i) ==
    /\ inv[i].cmd \in DeferringCommands
    /\ inv[i].cmd = "compare" => ~TooManySymbols(i)
    /\ inv[i].cmd = "popular" => KnownCategory(i)

UsesDataClient(i) == inv[i].cmd \in {"price", "chart", "compare", "popular"}

FailureMet(i) ==
    LET cmd == inv[i].cmd
        answers == inv[i].answers
        last == answers[Len(answers)]
        req == inv[i].requests[Len(answers)]
    IN  IF ~AttemptsGateway(i) THEN "none"
        ELSE IF UsesDataClient(i) /\ alpaca_data_client # "client" THEN "AttributeError"
        ELSE IF ~UsesDataClient(i) /\ alpaca_trading_client # "client" THEN "AttributeError"
        ELSE IF AnswerFailure(last) # "none" THEN AnswerFailure(last)
        ELSE IF cmd = "price" /\ LatestOpenIsZero(last.data, req.symbols)
             THEN "ZeroDivisionError"
        ELSE IF cmd = "popular"
                /\ \E k \in 1..Len(req.symbols) : LatestOpenIsZero(last.data, req.symbols[k])
             THEN "ZeroDivisionError"
        ELSE IF cmd = "compare" /\ FirstCloseIsZero(last.data, req.symbols)
             THEN "ZeroDivisionError"
        ELSE IF cmd \in {"chart", "compare"} /\ SaveFailed(i) THEN "SaveError"
        ELSE IF cmd = "chart" /\ FirstCloseIsZero(last.data, req.symbols)
             THEN "ZeroDivisionError"
        ELSE "none"

(***************************************************************************)
(* C2.  Every failure met while fetching, computing or formatting is       *)
(* caught inside the handler: no failure leaves a handler, and the one     *)
(* message of an invocation that met a failure is the error message of its *)
(* command carrying the failure's description - no embed, no image.  An    *)
(* invocation that met no failure sends no error message.                  *)
(***************************************************************************)
C2_FailuresBecomeErrorMessages ==
    \A i \in Slots :
        /\ inv[i].pc # "failed"
        /\ inv[i].unhandled = "none"
        /\ inv[i].pc = "sending" =>
              /\ Len(inv[i].sent) = 1
              /\ IF FailureMet(i) # "none"
                 THEN MsgOf(i) = [kind |-> "error", cmd |-> inv[i].cmd,
                                  detail |-> FailureMet(i)]
                 ELSE MsgOf(i).kind # "error"

\* a compare invocation plotted one series, then divided by a zero first close,
\* and answered with the error message only
C2_Witness ==
    \E i \in Slots :
        /\ Replied(i, "compare")
        /\ \E k \in 1..Len(inv[i].figops) : inv[i].figops[k].op = "plot"
        /\ inv[i].sent = <<[kind |-> "error", cmd |-> "compare",
                            detail |-> "ZeroDivisionError"]>>

(***************************************************************************)
(* C3.  Compare: a symbol list of more than 5 comma-separated entries is   *)
(* answered with the "no more than 5 stocks" message alone, and that       *)
(* invocation makes no gateway call and draws no chart.                    *)
(***************************************************************************)
C3_TooManySymbolsRejectedBeforeAnyCall ==
    \A i \in Slots :
        (inv[i].cmd = "compare" /\ TooManySymbols(i))
        => /\ inv[i].requests = <<>>
           /\ inv[i].answers = <<>>
           /\ inv[i].figops = <<>>
           /\ inv[i].pc = "sending" =>
                 /\ inv[i].sent = <<[kind |-> "reject", cmd |-> "compare"]>>
                 /\ inv[i].trace = <<"defer", "followup">>

\* six symbols were compared with a working data client and the request was rejected
C3_Witness ==
    \E i \in Slots :
        /\ Replied(i, "compare")
        /\ Len(Split(inv[i].args.symbols)) = 6
        /\ alpaca_data_client = "client"
        /\ MsgOf(i).kind = "reject"

(***************************************************************************)
(* C4.  Chart and compare: whatever integer the day count is, every        *)
(* gateway query of the invocation, the chart title and the embed use      *)
(* max(1, min(365, days)); the day count never causes a rejection (a       *)
(* chart request always reaches the gateway, a compare request does unless *)
(* it names more than 5 symbols).                                          *)
(***************************************************************************)
C4_DaysClampedTo1And365 ==
    \A i \in Slots :
        (inv[i].pc = "sending" /\ inv[i].cmd \in {"chart", "compare"})
        => LET d == inv[i].args.days
               eff == IF d < 1 THEN 1 ELSE IF d > 365 THEN 365 ELSE d
           IN  /\ \A k \in 1..Len(inv[i].requests) : inv[i].requests[k].days = eff
               /\ \A k \in 1..Len(inv[i].figops) :
                     inv[i].figops[k].op = "title" => inv[i].figops[k].days = eff
               /\ MsgOf(i).kind = "embed" => MsgOf(i).days = eff
               /\ inv[i].cmd = "chart" => Len(inv[i].requests) = 1
               /\ (inv[i].cmd = "compare" /\ ~TooManySymbols(i)) =>
                     /\ Len(inv[i].requests) >= 1
                     /\ MsgOf(i).kind # "reject"
               /\ (inv[i].cmd = "chart" /\ d >= 1 /\ d <= 365) =>
                     inv[i].requests[1].days = d

\* a chart asked for less than one day was fetched, drawn and sent for one day
C4_Witness ==
    \E i \in Slots :
        /\ Replied(i, "chart")
        /\ inv[i].args.days < 1
        /\ inv[i].requests[1].days = 1
        /\ MsgOf(i).kind = "embed"
        /\ MsgOf(i).days = 1

(***************************************************************************)
(* C5.  Popular: an argument that is no key of the category table in any   *)
(* letter case is answered with the list of exactly the eight valid        *)
(* category names, and no gateway call is made; an argument that spells a  *)
(* key in any letter case is looked up: it is not rejected, and the        *)
(* symbols of that category are requested.                                 *)
(***************************************************************************)
ValidCategoryNames ==
    {<<"t","e","c","h">>, <<"f","i","n","a","n","c","e">>,
     <<"h","e","a","l","t","h","c","a","r","e">>, <<"c","o","n","s","u","m","e","r">>,
     <<"e","n","e","r","g","y">>,
     <<"e","n","t","e","r","t","a","i","n","m","e","n","t">>,
     <<"a","u","t","o","m","o","t","i","v","e">>, <<"a","i","r","l","i","n","e","s">>}

C5_InvalidCategoryListsValidNames ==
    \A i \in Slots :
        Replied(i, "popular")
        => LET arg == inv[i].args.category
               m == MsgOf(i)
           IN  IF \E key \in ValidCategoryNames : CaseMatches(arg, key)
               THEN LET key == CHOOSE key \in ValidCategoryNames : CaseMatches(arg, key)
                    IN  /\ m.kind \in {"embed", "error"}
                        /\ Len(inv[i].requests) = 1
                        /\ inv[i].requests[1].symbols = CategoryInfo(key).stocks
                        /\ m.kind = "embed" => m.category = key
               ELSE /\ m.kind = "invalid"
                    /\ {m.available[k] : k \in 1..Len(m.available)} = ValidCategoryNames
                    /\ Len(m.available) = 8
                    /\ inv[i].requests = <<>>
                    /\ inv[i].trace = <<"defer", "followup">>

\* an unknown category was asked for with a working data client and the reply
\* lists the categories
C5_Witness ==
    \E i \in Slots :
        /\ Replied(i, "popular")
        /\ inv[i].args.category = <<"c", "r", "y", "p", "t", "o">>
        /\ alpaca_data_client = "client"
        /\ MsgOf(i).kind = "invalid"
        /\ Len(MsgOf(i).available) = 8

(***************************************************************************)
(* C6.  Price and chart: when the gateway call succeeds and returns no bar *)
(* for the symbol (no entry, or an entry with an empty list), the only     *)
(* reply is the not-found message for that symbol: no embed, no image, no  *)
(* error message, no unhandled failure.                                    *)
(***************************************************************************)
C6_NoBarsIsNotFound ==
    \A i \in Slots :
        ((Replied(i, "price") \/ Replied(i, "chart")) /\ Fetched(i, 1))
        => LET symbol == inv[i].requests[1].symbols
               data == inv[i].answers[1].data
           IN  (symbol \notin DOMAIN data \/ data[symbol] = <<>>)
               => /\ inv[i].sent = <<[kind |-> "notfound", cmd |-> inv[i].cmd,
                                      symbol |-> symbol]>>
                  /\ inv[i].figops = <<>>
                  /\ inv[i].unhandled = "none"

\* the gateway answered a chart request with an empty bar list and the reply is not-found
C6_Witness ==
    \E i \in Slots :
        /\ Replied(i, "chart")
        /\ Fetched(i, 1)
        /\ inv[i].requests[1].symbols \in DOMAIN inv[i].answers[1].data
        /\ inv[i].answers[1].data[inv[i].requests[1].symbols] = <<>>
        /\ MsgOf(i).kind = "notfound"

(***************************************************************************)
(* C7.  Compare: each series fetched with at least one bar and a non-zero  *)
(* first close is plotted once, and every plotted value is the percentage  *)
(* change of that bar's close against the first close of its series,       *)
(* (close[k] / close[1] - 1) * 100: the first value of a series is 0, and  *)
(* the closes 100, 110, 121 are plotted as 0, 10, 21.                      *)
(***************************************************************************)
C7_PlottedValuesArePercentChange ==
    \A i \in Slots :
        Replied(i, "compare")
        => /\ \A j \in 1..Len(inv[i].answers) :
                 LET symbol == inv[i].requests[j].symbols
                     data == inv[i].answers[j].data
                 IN  (Fetched(i, j) /\ symbol \in DOMAIN data /\ data[symbol] # <<>>
                        /\ data[symbol][1].close # 0)
                     => \E k \in 1..Len(inv[i].figops) :
                           LET p == inv[i].figops[k]
                               bars == data[symbol]
                           IN  /\ p.op = "plot"
                               /\ p.label = symbol
                               /\ Len(p.ys) = Len(bars)
                               /\ p.ys[1] = [n |-> 0, d |-> 1]
                               /\ \A b \in 1..Len(bars) :
                                     /\ p.ys[b].d > 0
                                     /\ p.ys[b].n * bars[1].close
                                          = (bars[b].close - bars[1].close) * 100 * p.ys[b].d
                               /\ (Len(bars) = 3 /\ bars[1].close = 100
                                     /\ bars[2].close = 110 /\ bars[3].close = 121)
                                  => p.ys = <<[n |-> 0, d |-> 1], [n |-> 10, d |-> 1],
                                              [n |-> 21, d |-> 1]>>
           /\ \A k \in 1..Len(inv[i].figops) :
                 inv[i].figops[k].op = "plot"
                 => \E j \in 1..Len(inv[i].answers) :
                       /\ Fetched(i, j)
                       /\ inv[i].requests[j].symbols = inv[i].figops[k].label

\* the closes 100, 110, 121 were fetched, plotted as 0, 10, 21 and the chart was sent
C7_Witness ==
    \E i \in Slots :
        /\ Replied(i, "compare")
        /\ MsgOf(i).kind = "embed"
        /\ Fetched(i, 1)
        /\ inv[i].requests[1].symbols \in DOMAIN inv[i].answers[1].data
        /\ Closes(inv[i].answers[1].data[inv[i].requests[1].symbols]) = <<100, 110, 121>>
        /\ \E k \in 1..Len(inv[i].figops) :
              /\ inv[i].figops[k].op = "plot"
              /\ inv[i].figops[k].ys = <<RInt(0), RInt(10), RInt(21)>>

(***************************************************************************)
(* C8.  Account: the daily P&L is portfolio_value - last_equity; the       *)
(* percentage is that difference over last_equity times 100 when           *)
(* last_equity is not zero and 0 when it is; with last_equity = 0 the      *)
(* reply is the account embed, not an error message.                       *)
(***************************************************************************)
C8_DailyChangeAndGuardedPercentage ==
    \A i \in Slots :
        (Replied(i, "account") /\ Fetched(i, 1))
        => LET account == inv[i].answers[1].data
               pv == account.portfolio_value
               le == account.last_equity
               m == MsgOf(i)
           IN  /\ Len(inv[i].sent) = 1
               /\ m.kind = "embed"
               /\ m.daily_change = pv - le
               /\ m.daily_change_pct.d > 0
               /\ IF le = 0 THEN m.daily_change_pct.n = 0
                  ELSE m.daily_change_pct.n * le = (pv - le) * 100 * m.daily_change_pct.d

\* an account whose last_equity is 0 and whose portfolio value is not was reported
C8_Witness ==
    \E i \in Slots :
        /\ Replied(i, "account")
        /\ Fetched(i, 1)
        /\ inv[i].answers[1].data.last_equity = 0
        /\ inv[i].answers[1].data.portfolio_value # 0
        /\ MsgOf(i).kind = "embed"
        /\ MsgOf(i).daily_change_pct = RInt(0)

(***************************************************************************)
(* C9.  Positions: when the gateway returns an empty position list the     *)
(* only reply is the empty-state text message; no embed is sent.           *)
(***************************************************************************)
C9_NoPositionsIsEmptyState ==
    \A i \in Slots :
        (Replied(i, "positions") /\ Fetched(i, 1) /\ Len(inv[i].answers[1].data) = 0)
        => inv[i].sent = <<[kind |-> "empty", cmd |-> "positions"]>>

\* the gateway returned no position and the handler replied
C9_Witness ==
    \E i \in Slots :
        /\ Replied(i, "positions")
        /\ Fetched(i, 1)
        /\ inv[i].answers[1].data = <<>>
        /\ MsgOf(i).kind = "empty"

(***************************************************************************)
(* C10.  When client initialization fails at startup the process still     *)
(* starts, with both clients None.  From then on every invocation that     *)
(* attempts a gateway call ends with the error message of its command (no  *)
(* unhandled failure), and every invocation that attempts none - browse,   *)
(* help, popular with an unknown category, compare with more than 5        *)
(* symbols - replies what it replies when the clients are available.       *)
(***************************************************************************)
StaticReply(i) ==
    CASE inv[i].cmd = "browse" ->
            [kind |-> "embed", cmd |-> "browse", fields |-> browse_list, file |-> "none"]
      [] inv[i].cmd = "help" ->
            [kind |-> "embed", cmd |-> "help", fields |-> commands_info, file |-> "none"]
      [] inv[i].cmd = "popular" ->
            [kind |-> "invalid", cmd |-> "popular", available |-> CategoryKeys]
      [] inv[i].cmd = "compare" -> [kind |-> "reject", cmd |-> "compare"]

C10_DegradedStartStillAnswers ==
    /\ boot = "ready" =>
          /\ alpaca_data_client \in {"client", "None"}
          /\ alpaca_data_client = "None" <=> alpaca_trading_client = "None"
    /\ \A i \in Slots :
          /\ inv[i].unhandled = "none"
          /\ inv[i].pc # "failed"
          /\ inv[i].pc = "sending" =>
                IF AttemptsGateway(i)
                THEN (alpaca_data_client = "None" \/ alpaca_trading_client = "None")
                     => /\ inv[i].sent = <<[kind |-> "error", cmd |-> inv[i].cmd,
                                            detail |-> "AttributeError"]>>
                        /\ inv[i].answers = <<>>
                ELSE inv[i].sent = <<StaticReply(i)>>

\* initialization failed and an account request was answered with the account error message
C10_Witness ==
    \E i \in Slots :
        /\ alpaca_trading_client = "None"
        /\ Replied(i, "account")
        /\ MsgOf(i).kind = "error"
        /\ MsgOf(i).cmd = "account"

(***************************************************************************)
(* C11.  Invocations interleave on the event loop and are suspended only   *)
(* at their deferral and at their reply send.  Under every interleaving an *)
(* invocation does not touch what another one drew: no step changes or     *)
(* closes a figure that was open before the step (each chart and compare   *)
(* opens its own figure, and a figure left open by an earlier invocation   *)
(* that ended on its error path stays as it was), and the image attached   *)
(* to a chart or compare reply holds exactly the series that invocation    *)
(* plotted: the symbol of the chart, or the compared symbols that had      *)
(* bars, in order.                                                         *)
(***************************************************************************)
IsPrefix(s, t) == Len(s) <= Len(t) /\ SubSeq(t, 1, Len(s)) = s

\* the symbols of slot i's requests that were answered with bars, in request order
RECURSIVE SymbolsWithBars(_, _)
SymbolsWithBars(i, k) ==
    IF k = 0 THEN <<>>
    ELSE LET symbol == inv[i].requests[k].symbols
             rest == SymbolsWithBars(i, k - 1)
         IN  IF Fetched(i, k) /\ symbol \in DOMAIN inv[i].answers[k].data
                  /\ inv[i].answers[k].data[symbol] # <<>>
             THEN Append(rest, symbol) ELSE rest

\* the lines slot i's invocation is to have drawn
OwnLines(i) ==
    LET symbols == SymbolsWithBars(i, Len(inv[i].requests))
    IN  [k \in 1..Len(symbols) |-> [by |-> i, label |-> symbols[k]]]

AttachesImage(i) ==
    /\ inv[i].pc = "sending"
    /\ inv[i].cmd \in {"chart", "compare"}
    /\ MsgOf(i).kind = "embed"

ImagesAreOwn ==
    \A i \in Slots :
        AttachesImage(i)
        => MsgOf(i).file.lines = OwnLines(i)

C11_InvocationsDoNotShareFigures ==
    [][IsPrefix(figs, figs') /\ ImagesAreOwn']_vars

\* a chart or compare reply with its image is being sent while a figure that a failed
\* invocation of another slot drew on is still open and another invocation is suspended
C11_Witness ==
    \E i \in Slots, j \in Slots :
        /\ i # j
        /\ AttachesImage(i)
        /\ MsgOf(i).file.lines # <<>>
        /\ inv[j].pc = "deferred"
        /\ inv[j].cmd \in {"chart", "compare"}
        /\ \E k \in 1..Len(figs) : figs[k].lines # <<>> /\ figs[k].lines[1].by # i

(***************************************************************************)
(* C12.  With sends that succeed, every invocation replies exactly once on *)
(* every path.  The eight gateway commands defer first, call the gateway   *)
(* only after the deferral and then await exactly one follow-up send: the  *)
(* success reply, the not-found, empty or rejection reply, or the error    *)
(* message, never two of them and never none; /browse and /help await one  *)
(* immediate response and never defer.  An invocation ends only from its   *)
(* one send, and no exception leaves a handler.                            *)
(***************************************************************************)
ReplyKinds(cmd) ==
    CASE cmd \in {"price", "chart"} -> {"embed", "notfound", "error"}
      [] cmd = "compare" -> {"embed", "reject", "error"}
      [] cmd = "positions" -> {"embed", "empty", "error"}
      [] cmd = "search" -> {"embed", "nomatch", "error"}
      [] cmd = "popular" -> {"embed", "invalid", "error"}
      [] cmd \in {"account", "market"} -> {"embed", "error"}
      [] OTHER -> {"embed"}

C12_ExactlyOneReply ==
    \A i \in Slots :
        LET p == inv[i]
            n == Len(p.trace)
        IN  /\ p.pc \in {"idle", "deferred", "sending"}
            /\ p.unhandled = "none"
            /\ p.pc = "idle" => (p.sent = <<>> /\ p.trace = <<>>)
            /\ p.pc = "deferred" =>
                  /\ p.cmd \in DeferringCommands
                  /\ p.trace = <<"defer">>
                  /\ p.sent = <<>>
                  /\ p.requests = <<>>
            /\ p.pc = "sending" =>
                  /\ Len(p.sent) = 1
                  /\ p.sent[1].kind \in ReplyKinds(p.cmd)
                  /\ IF p.cmd \in {"browse", "help"}
                     THEN p.trace = <<"send_message">> /\ p.requests = <<>>
                     ELSE /\ p.cmd \in DeferringCommands
                          /\ n = Len(p.requests) + 2
                          /\ p.trace[1] = "defer"
                          /\ p.trace[n] = "followup"
                          /\ \A k \in 2..(n - 1) : p.trace[k] = "gateway"

\* a compare made two gateway calls after its deferral, the second of which failed, and
\* awaits its one follow-up, the error message
C12_Witness ==
    \E i \in Slots :
        /\ Replied(i, "compare")
        /\ inv[i].trace = <<"defer", "gateway", "gateway", "followup">>
        /\ inv[i].sent = <<ErrorMsg("compare", "APIError")>>

(***************************************************************************)
(* C13.  Every figure a chart or compare invocation opens is closed before *)
(* the invocation finishes, on every path: an invocation that has opened a *)
(* figure and awaits its reply has closed it, also when a gateway call,    *)
(* the normalization or the save failed after plt.figure; hence whenever   *)
(* no handler is running, no figure is open.                               *)
(* The handlers close the figure only on the path through plt.savefig;     *)
(* the except clause does not, so this fails for a compare whose gateway   *)
(* call raises.                                                            *)
(***************************************************************************)
OpenedFigure(i) ==
    \E k \in 1..Len(inv[i].figops) : inv[i].figops[k].op = "figure"

ClosedFigure(i) ==
    \E k \in 1..Len(inv[i].figops) : inv[i].figops[k].op = "close"

C13_FiguresClosedOnEveryPath ==
    /\ \A i \in Slots :
          (inv[i].pc = "sending" /\ OpenedFigure(i)) => ClosedFigure(i)
    /\ (\A i \in Slots : inv[i].pc = "idle") => figs = <<>>

====
